---- MODULE Spec2Model ----
(***************************************************************************)
(* Model of the codegrey waitlist page: the environment sniffer            *)
(* (src/src/lib/metadata.ts) and the submission flow of the App component  *)
(* (src/src/App.tsx).                                                      *)
(*                                                                         *)
(* Text is modelled by TLA+ strings, read character by character with Len, *)
(* SubSeq and \o, so that the substring and pattern tests of the source    *)
(* are computed the way the JavaScript engine computes them.               *)
(***************************************************************************)
EXTENDS Integers, Sequences, FiniteSets, TLC

VARIABLES
    ua,           \* navigator.userAgent
    hour,         \* new Date().getHours() of the visit
    sniffed,      \* result of a stand-alone collectTechnicalMetadata() call
    email,        \* App state: useState('')
    isSubmitted,  \* App state: useState(false)
    isLoading,    \* App state: useState(false)
    error,        \* App state: useState('')
    calls,        \* the invocations of handleSubmit: their locals and position
    nSubmits,     \* number of submit events dispatched so far
    consoleErrors,\* number of console.error reports
    insertedOk    \* some insert into 'waitlist' has returned without error

vars == <<ua, hour, sniffed, email, isSubmitted, isLoading, error, calls,
          nSubmits, consoleErrors, insertedOk>>

appVars == <<email, isSubmitted, isLoading, error, calls, nSubmits,
             consoleErrors, insertedOk>>

(***************************************************************************)
(* Bounds of the model.                                                    *)
(***************************************************************************)
\* longest user-agent string, counted in pieces of UATokens
MaxTokens == 2
\* submit events dispatched in one visit
MaxSubmits == 2

(***************************************************************************)
(* JavaScript values that may be absent.                                   *)
(***************************************************************************)
Undefined == <<"undefined">>
Str(s) == <<"string", s>>

\* a || b  for a possibly-undefined string a (a captured group is never '')
OrElse(a, b) == IF a = Undefined \/ a = Str("") THEN b ELSE a[2]

\* obj.k : reading a property that the object may not have
Get(obj, k) == IF k \in DOMAIN obj THEN obj[k] ELSE Undefined

\* { ...a, ...b } : own properties of a, then those of b, b winning
Spread(a, b) ==
    [k \in (DOMAIN a) \cup (DOMAIN b) |-> IF k \in DOMAIN b THEN b[k] ELSE a[k]]

EmptyObject == [k \in {} |-> Undefined]

(***************************************************************************)
(* String primitives.                                                      *)
(***************************************************************************)
CharAt(s, i) == SubSeq(s, i, i)

\* m occurs in s starting at position i
MatchAt(s, i, m) == /\ i >= 1
                    /\ i + Len(m) - 1 <= Len(s)
                    /\ SubSeq(s, i, i + Len(m) - 1) = m

\* String.prototype.includes
includes(s, m) == \E i \in 1..(Len(s) - Len(m) + 1) : MatchAt(s, i, m)

\* the lower-case letter of each upper-case ASCII letter
FoldMap ==
    [A |-> "a", B |-> "b", C |-> "c", D |-> "d", E |-> "e", F |-> "f", G |-> "g",
     H |-> "h", I |-> "i", J |-> "j", K |-> "k", L |-> "l", M |-> "m", N |-> "n",
     O |-> "o", P |-> "p", Q |-> "q", R |-> "r", S |-> "s", T |-> "t", U |-> "u",
     V |-> "v", W |-> "w", X |-> "x", Y |-> "y", Z |-> "z"]

\* case folding of one character, as the i flag canonicalizes ASCII letters
FoldChar(c) == IF c \in DOMAIN FoldMap THEN FoldMap[c] ELSE c

\* s with every character folded (by halves, to keep the recursion shallow)
RECURSIVE Fold(_)
Fold(s) ==
    IF Len(s) = 0 THEN ""
    ELSE IF Len(s) = 1 THEN FoldChar(s)
    ELSE LET h == Len(s) \div 2
         IN Fold(SubSeq(s, 1, h)) \o Fold(SubSeq(s, h + 1, Len(s)))

IsDigit(c) == c \in {"0", "1", "2", "3", "4", "5", "6", "7", "8", "9"}

\* the characters the regular-expression dot does not match
IsLineTerminator(c) == c \in {"\n", "\r"}

\* end of the longest run of digits of s that starts at position i
\* (i - 1 when there is no digit at i): the greedy \d+
RECURSIVE DigitsEnd(_, _)
DigitsEnd(s, i) == IF i <= Len(s) /\ IsDigit(CharAt(s, i))
                   THEN DigitsEnd(s, i + 1)
                   ELSE i - 1

\* s.match(/<prefix>(\d+)/)?.[1] : the leftmost place where prefix is
\* followed by a digit, and the digits that follow it
MatchDigits(s, prefix) ==
    LET P == {i \in 1..Len(s) : /\ MatchAt(s, i, prefix)
                                /\ DigitsEnd(s, i + Len(prefix)) >= i + Len(prefix)}
    IN IF P = {} THEN Undefined
       ELSE LET i == CHOOSE p \in P : \A q \in P : p <= q
                b == i + Len(prefix)
            IN Str(SubSeq(s, b, DigitsEnd(s, b)))

\* end of a match of \d+[._]\d+ that starts at position b (0 when none)
DottedEnd(s, b) ==
    LET e1 == DigitsEnd(s, b)
    IN IF /\ e1 >= b
          /\ e1 + 1 <= Len(s)
          /\ CharAt(s, e1 + 1) \in {".", "_"}
          /\ DigitsEnd(s, e1 + 2) >= e1 + 2
       THEN DigitsEnd(s, e1 + 2)
       ELSE 0

\* s.match(/<prefix>(\d+[._]\d+)/)?.[1]
MatchDotted(s, prefix) ==
    LET P == {i \in 1..Len(s) : /\ MatchAt(s, i, prefix)
                                /\ DottedEnd(s, i + Len(prefix)) > 0}
    IN IF P = {} THEN Undefined
       ELSE LET i == CHOOSE p \in P : \A q \in P : p <= q
                b == i + Len(prefix)
            IN Str(SubSeq(s, b, DottedEnd(s, b)))

\* String.prototype.replace(from, to) with a one-character string pattern:
\* only the first occurrence is replaced
RECURSIVE replace(_, _, _)
replace(s, from, to) ==
    IF Len(s) = 0 THEN ""
    ELSE IF CharAt(s, 1) = from THEN to \o SubSeq(s, 2, Len(s))
    ELSE CharAt(s, 1) \o replace(SubSeq(s, 2, Len(s)), from, to)

(***************************************************************************)
(* The environment sniffer: collectTechnicalMetadata and its classifiers.  *)
(***************************************************************************)

\* getBrowser with the Safari test placed before the Chrome test
getBrowser_SafariBeforeChrome(u) ==
    IF includes(u, "Firefox")
    THEN [name |-> "Firefox", version |-> OrElse(MatchDigits(u, "Firefox/"), "unknown")]
    ELSE IF includes(u, "Edg")
    THEN [name |-> "Edge", version |-> OrElse(MatchDigits(u, "Edg/"), "unknown")]
    ELSE IF includes(u, "Safari")
    THEN [name |-> "Safari", version |-> OrElse(MatchDigits(u, "Version/"), "unknown")]
    ELSE IF includes(u, "Chrome")
    THEN [name |-> "Chrome", version |-> OrElse(MatchDigits(u, "Chrome/"), "unknown")]
    ELSE [name |-> "Unknown", version |-> "unknown"]

getBrowser(u) ==
    IF includes(u, "Firefox")
    THEN [name |-> "Firefox", version |-> OrElse(MatchDigits(u, "Firefox/"), "unknown")]
    ELSE IF includes(u, "Edg")
    THEN [name |-> "Edge", version |-> OrElse(MatchDigits(u, "Edg/"), "unknown")]
    ELSE IF includes(u, "Chrome")
    THEN [name |-> "Chrome", version |-> OrElse(MatchDigits(u, "Chrome/"), "unknown")]
    ELSE IF includes(u, "Safari")
    THEN [name |-> "Safari", version |-> OrElse(MatchDigits(u, "Version/"), "unknown")]
    ELSE [name |-> "Unknown", version |-> "unknown"]

\* 'macOS ' + (ua.match(/Mac OS X (\d+[._]\d+)/)?.[1].replace('_', '.') || '')
macVersion(u) ==
    LET m == MatchDotted(u, "Mac OS X ")
    IN IF m = Undefined THEN "" ELSE replace(m[2], "_", ".")

\* getOS whose fallback label is spelled in lower case
getOS_LowerCaseDefault(u) ==
    IF includes(u, "Windows NT 10") THEN "Windows 10/11"
    ELSE IF includes(u, "Windows") THEN "Windows"
    ELSE IF includes(u, "Mac OS X") THEN "macOS " \o macVersion(u)
    ELSE IF includes(u, "Linux") THEN "Linux"
    ELSE IF includes(u, "Android") THEN "Android"
    ELSE IF includes(u, "iOS") \/ includes(u, "iPhone") \/ includes(u, "iPad") THEN "iOS"
    ELSE "unknown"

getOS(u) ==
    IF includes(u, "Windows NT 10") THEN "Windows 10/11"
    ELSE IF includes(u, "Windows") THEN "Windows"
    ELSE IF includes(u, "Mac OS X") THEN "macOS " \o macVersion(u)
    ELSE IF includes(u, "Linux") THEN "Linux"
    ELSE IF includes(u, "Android") THEN "Android"
    ELSE IF includes(u, "iOS") \/ includes(u, "iPhone") \/ includes(u, "iPad") THEN "iOS"
    ELSE "Unknown"

\* .*mobi tried from position i of the folded string f: some "mobi" at or
\* after i with no line terminator between i and it
MobiAhead(f, i) ==
    \E j \in i..Len(f) :
        /\ MatchAt(f, j, "mobi")
        /\ \A k \in i..(j - 1) : ~IsLineTerminator(CharAt(f, k))

\* /(tablet|ipad|playbook|silk)|(android(?!.*mobi))/i.test(u)
TabletPattern(u) ==
    \E f \in {Fold(u)} :
       \/ includes(f, "tablet")
       \/ includes(f, "ipad")
       \/ includes(f, "playbook")
       \/ includes(f, "silk")
       \/ \E i \in 1..Len(f) :
             /\ MatchAt(f, i, "android")
             /\ ~MobiAhead(f, i + Len("android"))

\* /Mobile|Android|iP(hone|od)|IEMobile|BlackBerry|Kindle|Silk-Accelerated|(hpw|web)OS|Opera M(obi|ini)/.test(u)
MobilePattern(u) ==
    \E m \in {"Mobile", "Android", "iPhone", "iPod", "IEMobile", "BlackBerry",
              "Kindle", "Silk-Accelerated", "hpwOS", "webOS", "Opera Mobi",
              "Opera Mini"} : includes(u, m)

\* getDeviceType whose tablet test lacks the negative lookahead
getDeviceType_NoLookahead(u) ==
    IF \/ includes(Fold(u), "tablet") \/ includes(Fold(u), "ipad")
       \/ includes(Fold(u), "playbook") \/ includes(Fold(u), "silk")
       \/ includes(Fold(u), "android")
    THEN "tablet"
    ELSE IF MobilePattern(u) THEN "mobile"
    ELSE "desktop"

getDeviceType(u) ==
    IF TabletPattern(u) THEN "tablet"
    ELSE IF MobilePattern(u) THEN "mobile"
    ELSE "desktop"

\* getTimeOfDay whose morning bucket is closed at 12
getTimeOfDay_ClosedMorning(h) ==
    IF h >= 5 /\ h <= 12 THEN "Morning"
    ELSE IF h >= 12 /\ h < 17 THEN "Afternoon"
    ELSE IF h >= 17 /\ h < 21 THEN "Evening"
    ELSE "Night"

getTimeOfDay(h) ==
    IF h >= 5 /\ h < 12 THEN "Morning"
    ELSE IF h >= 12 /\ h < 17 THEN "Afternoon"
    ELSE IF h >= 17 /\ h < 21 THEN "Evening"
    ELSE "Night"

days == <<"Sunday", "Monday", "Tuesday", "Wednesday", "Thursday", "Friday", "Saturday">>

\* The ambient reads that the model keeps fixed: screen and viewport,
\* locale, referrer, address, the date part of the clock, navigator flags.
Ambient ==
    [screen |-> "1920x1080", viewport |-> "1280x720",
     timeZone |-> "Africa/Accra", language |-> "en-GB",
     referrer |-> "", href |-> "https://codegrey.example/",
     iso |-> "2026-01-06T00:00:00.000Z", day |-> 2,
     cookieEnabled |-> TRUE, doNotTrack |-> "1",
     connection |-> <<"object", [effectiveType |-> Str("4g")]>>,
     mozConnection |-> Undefined,
     webkitConnection |-> Undefined]

\* connection?.k : undefined when no connection object is exposed
ConnectionProp(connection, k) ==
    IF connection = Undefined THEN Undefined ELSE Get(connection[2], k)

\* navigator.connection || navigator.mozConnection || navigator.webkitConnection,
\* then connection?.effectiveType || connection?.type || undefined
getConnectionType(nav) ==
    LET connection == IF nav.connection # Undefined THEN nav.connection
                      ELSE IF nav.mozConnection # Undefined THEN nav.mozConnection
                      ELSE nav.webkitConnection
    IN IF ConnectionProp(connection, "effectiveType") \notin {Undefined, Str("")}
       THEN ConnectionProp(connection, "effectiveType")
       ELSE IF ConnectionProp(connection, "type") \notin {Undefined, Str("")}
       THEN ConnectionProp(connection, "type")
       ELSE Undefined

collectTechnicalMetadata(u, h) ==
    [browser |-> [name |-> getBrowser(u).name,
                  version |-> getBrowser(u).version,
                  userAgent |-> u],
     device |-> [type |-> getDeviceType(u),
                 os |-> getOS(u),
                 screenResolution |-> Ambient.screen,
                 viewportSize |-> Ambient.viewport],
     location |-> [timezone |-> Str(Ambient.timeZone),
                   language |-> Str(Ambient.language)],
     session |-> [referrer |-> IF Ambient.referrer = "" THEN "Direct" ELSE Ambient.referrer,
                  landingPage |-> Ambient.href,
                  timestamp |-> Ambient.iso,
                  dayOfWeek |-> days[Ambient.day + 1],
                  timeOfDay |-> getTimeOfDay(h)],
     technical |-> [jsEnabled |-> TRUE,
                    cookiesEnabled |-> Ambient.cookieEnabled,
                    doNotTrack |-> (Ambient.doNotTrack = "1"),
                    connectionType |-> getConnectionType(Ambient)]]

(***************************************************************************)
(* User agents of the sniffer specification: every concatenation of at     *)
(* most MaxTokens pieces.  The pieces carry the markers the classifiers    *)
(* test for (one piece is the tail every Chrome-family user agent ends     *)
(* with), a lower-case spelling, and a line break.                         *)
(***************************************************************************)
UATokens == {"Chrome/120", "Safari/537", "Chrome/120 Safari/537", "Edg/120",
             "Firefox/119", "Android", "Mobi", "mobi", "Tablet", "\n"}

RECURSIVE UserAgentsUpTo(_)
UserAgentsUpTo(n) ==
    IF n = 0 THEN {""}
    ELSE LET S == UserAgentsUpTo(n - 1)
         IN S \cup {s \o t : s \in S, t \in UATokens}

UserAgents == UserAgentsUpTo(MaxTokens)

Hours == 0..23

AppInit ==
    /\ email = ""
    /\ isSubmitted = FALSE
    /\ isLoading = FALSE
    /\ error = ""
    /\ calls = <<>>
    /\ nSubmits = 0
    /\ consoleErrors = 0
    /\ insertedOk = FALSE

InitSniffer ==
    /\ ua \in UserAgents
    /\ hour \in Hours
    /\ sniffed = <<>>
    /\ AppInit

\* a call of collectTechnicalMetadata() on its own
Sniff ==
    /\ sniffed = <<>>
    /\ sniffed' = <<collectTechnicalMetadata(ua, hour)>>
    /\ UNCHANGED <<ua, hour>>
    /\ UNCHANGED appVars

NextSniffer == Sniff

SnifferSpec == InitSniffer /\ [][NextSniffer]_vars

(***************************************************************************)
(* The geolocation service and getGeolocation.                             *)
(***************************************************************************)

\* JSON values a body can parse to
JsonNull == [type |-> "null"]
JsonObject(props) == [type |-> "object", props |-> props]

\* data.k on a parsed body that is not null
Prop(data, k) == IF data.type = "object" THEN Get(data.props, k) ELSE Undefined

\* Answers of https://ipapi.co/json/ : the full answer, an answer without a
\* city, a rate-limit answer (an error status with a JSON body), an error
\* page that is not JSON, and the JSON body null.
FullBody ==
    JsonObject([country_name |-> Str("Ghana"), city |-> Str("Accra"),
                country_code |-> Str("GH")])
NoCityBody ==
    JsonObject([country_name |-> Str("Ghana"), country_code |-> Str("GH")])
RateLimitedBody ==
    JsonObject([error |-> <<"boolean", TRUE>>, reason |-> Str("RateLimited")])

Responses ==
    {[ok |-> TRUE, isJson |-> TRUE, data |-> FullBody],
     [ok |-> TRUE, isJson |-> TRUE, data |-> NoCityBody],
     [ok |-> TRUE, isJson |-> TRUE, data |-> JsonNull],
     [ok |-> FALSE, isJson |-> TRUE, data |-> RateLimitedBody],
     [ok |-> FALSE, isJson |-> FALSE, data |-> JsonNull]}

\* What the two awaits of getGeolocation met: fetch rejected, or it resolved
\* with a response whose json() then settled.
FetchRejected == [fetched |-> FALSE]
Fetched(resp) == [fetched |-> TRUE, response |-> resp]

\* the try block throws: fetch rejects, json() rejects, or data is null
GeoThrows(attempt) ==
    \/ ~attempt.fetched
    \/ ~attempt.response.isJson
    \/ attempt.response.data.type = "null"

\* getGeolocation whose catch block rethrows after logging
getGeolocation_Rethrow(attempt) ==
    IF GeoThrows(attempt)
    THEN [raised |-> TRUE, value |-> EmptyObject, logged |-> TRUE]
    ELSE [raised |-> FALSE, logged |-> FALSE,
          value |-> [country |-> Prop(attempt.response.data, "country_name"),
                     city |-> Prop(attempt.response.data, "city"),
                     countryCode |-> Prop(attempt.response.data, "country_code")]]

\* getGeolocation: what the promise settles with, and whether console.error ran
getGeolocation(attempt) ==
    IF GeoThrows(attempt)
    THEN [raised |-> FALSE, value |-> EmptyObject, logged |-> TRUE]
    ELSE [raised |-> FALSE, logged |-> FALSE,
          value |-> [country |-> Prop(attempt.response.data, "country_name"),
                     city |-> Prop(attempt.response.data, "city"),
                     countryCode |-> Prop(attempt.response.data, "country_code")]]

(***************************************************************************)
(* The App component: its state and handleSubmit.                          *)
(***************************************************************************)
Emails == {"", "ama@example.com", "kofi@example.com"}

SampleUserAgents ==
    {"",
     "Mozilla/5.0 (Windows NT 10.0; Win64; x64) AppleWebKit/537.36 (KHTML, like Gecko) Chrome/120.0.0.0 Safari/537.36"}

SampleHours == {9, 22}

\* the merge that drops the synchronous location
mergeMetadata_GeoOnly(technicalData, geoData) ==
    [technicalData EXCEPT !.location = geoData]

\* { ...technicalData, location: { ...technicalData.location, ...geoData } }
mergeMetadata(technicalData, geoData) ==
    [technicalData EXCEPT !.location = Spread(technicalData.location, geoData)]

\* results of supabase.from('waitlist').insert([...]) as handleSubmit sees them
InsertResults ==
    {[kind |-> "ok"],
     [kind |-> "error", code |-> "23505"],
     [kind |-> "error", code |-> "42501"],
     [kind |-> "throws"]}

ErrDuplicate == "This email is already on the waitlist!"
ErrGeneric == "Something went wrong. Please try again."
ErrFailed == "Failed to join waitlist. Please try again."

\* the catch and finally blocks of handleSubmit
caught ==
    [isSubmitted |-> isSubmitted, email |-> email, error |-> ErrFailed,
     isLoading |-> FALSE]

\* the code after the insert with the return of the dbError branch missing
afterInsert_NoReturn(result) ==
    IF result.kind = "throws" THEN caught
    ELSE [isSubmitted |-> TRUE, email |-> "", isLoading |-> FALSE,
          error |-> IF result.kind = "ok" THEN error
                    ELSE IF result.code = "23505" THEN ErrDuplicate
                    ELSE ErrGeneric]

\* the code after the insert: the App state it leaves
afterInsert(result) ==
    IF result.kind = "throws" THEN caught
    ELSE IF result.kind = "error"
    THEN [isSubmitted |-> isSubmitted, email |-> email, isLoading |-> FALSE,
          error |-> IF result.code = "23505" THEN ErrDuplicate ELSE ErrGeneric]
    ELSE [isSubmitted |-> TRUE, email |-> "", error |-> error,
          isLoading |-> FALSE]

\* the form without the disabled attribute on its button
SubmitEnabled_NeverDisabled == ~isSubmitted

\* the form is rendered and its submit button is not disabled
SubmitEnabled == ~isSubmitted /\ ~isLoading

IsLive(c) == c.pc # "done"

\* the locals of a handleSubmit invocation suspended at its first await
NewCall(silent) ==
    [pc |-> "fetch",
     email |-> email,
     technicalData |-> collectTechnicalMetadata(ua, hour),
     silent |-> silent,
     response |-> <<>>,
     geo |-> <<>>,
     metadata |-> <<>>,
     insertIssued |-> FALSE,
     insertResult |-> "none"]

\* onChange of the email input
SetEmail(v) ==
    /\ ~isSubmitted
    /\ email # v
    /\ email' = v
    /\ UNCHANGED <<ua, hour, sniffed, isSubmitted, isLoading, error, calls,
                   nSubmits, consoleErrors, insertedOk>>

\* onSubmit of the form: handleSubmit up to its first await.  The service
\* may never answer the request (silent).
Submit ==
    /\ SubmitEnabled
    /\ nSubmits < MaxSubmits
    /\ nSubmits' = nSubmits + 1
    /\ \/ /\ email = ""
          /\ UNCHANGED <<isLoading, error, calls>>
       \/ /\ email # ""
          /\ isLoading' = TRUE
          /\ error' = ""
          /\ \E silent \in BOOLEAN :
                calls' = Append(SelectSeq(calls, IsLive), NewCall(silent))
    /\ UNCHANGED <<ua, hour, sniffed, email, isSubmitted, consoleErrors,
                   insertedOk>>

\* handleSubmit from the settling of getGeolocation to its second await
AfterGeolocation(i, response, result) ==
    /\ consoleErrors' = consoleErrors + (IF result.logged THEN 1 ELSE 0)
    /\ IF result.raised
       THEN /\ calls' = [calls EXCEPT ![i] =
                            [@ EXCEPT !.pc = "done", !.response = response,
                                      !.geo = <<result>>]]
            /\ isSubmitted' = caught.isSubmitted
            /\ email' = caught.email
            /\ error' = caught.error
            /\ isLoading' = caught.isLoading
       ELSE /\ calls' = [calls EXCEPT ![i] =
                            [@ EXCEPT !.pc = "insert", !.response = response,
                                      !.geo = <<result>>,
                                      !.metadata =
                                          <<mergeMetadata(calls[i].technicalData, result.value)>>,
                                      !.insertIssued = TRUE]]
            /\ UNCHANGED <<isSubmitted, email, error, isLoading>>
    /\ UNCHANGED <<ua, hour, sniffed, nSubmits, insertedOk>>

\* fetch rejects: the request failed on the network
FetchRejects(i) ==
    /\ i \in DOMAIN calls
    /\ calls[i].pc = "fetch"
    /\ ~calls[i].silent
    /\ AfterGeolocation(i, <<>>, getGeolocation(FetchRejected))

\* fetch resolves with a response, whatever its status
FetchResolves(i) ==
    /\ i \in DOMAIN calls
    /\ calls[i].pc = "fetch"
    /\ ~calls[i].silent
    /\ \E resp \in Responses :
          calls' = [calls EXCEPT ![i] = [@ EXCEPT !.pc = "json",
                                                  !.response = <<resp>>]]
    /\ UNCHANGED <<ua, hour, sniffed, email, isSubmitted, isLoading, error,
                   nSubmits, consoleErrors, insertedOk>>

\* response.json() settles
JsonSettles(i) ==
    /\ i \in DOMAIN calls
    /\ calls[i].pc = "json"
    /\ AfterGeolocation(i, calls[i].response,
                        getGeolocation(Fetched(calls[i].response[1])))

\* the insert settles: handleSubmit from its second await to its end
InsertSettles(i) ==
    /\ i \in DOMAIN calls
    /\ calls[i].pc = "insert"
    /\ \E result \in InsertResults :
          /\ calls' = [calls EXCEPT ![i] = [@ EXCEPT !.pc = "done",
                                                     !.insertResult = result.kind]]
          /\ isSubmitted' = afterInsert(result).isSubmitted
          /\ email' = afterInsert(result).email
          /\ error' = afterInsert(result).error
          /\ isLoading' = afterInsert(result).isLoading
          /\ insertedOk' = (insertedOk \/ result.kind = "ok")
    /\ UNCHANGED <<ua, hour, sniffed, nSubmits, consoleErrors>>

Init ==
    /\ ua \in SampleUserAgents
    /\ hour \in SampleHours
    /\ sniffed = <<>>
    /\ AppInit

Next ==
    \/ \E v \in Emails : SetEmail(v)
    \/ Submit
    \/ \E i \in DOMAIN calls : FetchRejects(i)
    \/ \E i \in DOMAIN calls : FetchResolves(i)
    \/ \E i \in DOMAIN calls : JsonSettles(i)
    \/ \E i \in DOMAIN calls : InsertSettles(i)

Spec == Init /\ [][Next]_vars

\* The event loop runs every continuation whose promise has settled; a
\* request the service never answers (silent) enables none.
FairSpec ==
    /\ Spec
    /\ \A i \in 1..MaxSubmits :
          /\ WF_vars(FetchRejects(i) \/ FetchResolves(i))
          /\ WF_vars(JsonSettles(i))
          /\ WF_vars(InsertSettles(i))

(***************************************************************************)
(* Properties of the sniffer, checked under SnifferSpec.                   *)
(***************************************************************************)
Sniffed == sniffed # <<>>
Result == sniffed[1]

\* C1 as stated: every user agent that contains both "Chrome" and "Safari"
\* is classified as browser "Chrome".
C1_ChromeWheneverChromeAndSafari ==
    (Sniffed /\ includes(ua, "Chrome") /\ includes(ua, "Safari"))
        => Result.browser.name = "Chrome"

\* C1 amended: every user agent that contains both "Chrome" and "Safari" and
\* contains neither "Firefox" nor "Edg" is classified as browser "Chrome".
C1_ChromeBeforeSafari ==
    (/\ Sniffed
     /\ includes(ua, "Chrome") /\ includes(ua, "Safari")
     /\ ~includes(ua, "Firefox") /\ ~includes(ua, "Edg"))
        => Result.browser.name = "Chrome"

C1_Witness ==
    /\ Sniffed
    /\ includes(ua, "Chrome") /\ includes(ua, "Safari")
    /\ ~includes(ua, "Firefox") /\ ~includes(ua, "Edg")
    /\ Result.browser.name = "Chrome"
    /\ Result.browser.version = "120"

\* the user agent is some string followed by "Mobi"
EndsWithMobi == Len(ua) >= Len("Mobi") /\ MatchAt(ua, Len(ua) - Len("Mobi") + 1, "Mobi")
BeforeMobi == SubSeq(ua, 1, Len(ua) - Len("Mobi"))

HasTabletMarker(s) ==
    \E m \in {"tablet", "ipad", "playbook", "silk"} : includes(Fold(s), m)
HasLineTerminator(s) == \E i \in 1..Len(s) : IsLineTerminator(CharAt(s, i))

C7_DayPartBuckets ==
    Sniffed =>
        LET t == Result.session.timeOfDay
            listed == (0 :> "Night") @@ (4 :> "Night") @@ (5 :> "Morning")
                      @@ (11 :> "Morning") @@ (12 :> "Afternoon")
                      @@ (16 :> "Afternoon") @@ (17 :> "Evening")
                      @@ (20 :> "Evening") @@ (21 :> "Night") @@ (23 :> "Night")
        IN /\ t \in {"Morning", "Afternoon", "Evening", "Night"}
           /\ (t = "Morning") <=> (5 <= hour /\ hour < 12)
           /\ (t = "Afternoon") <=> (12 <= hour /\ hour < 17)
           /\ (t = "Evening") <=> (17 <= hour /\ hour < 21)
           /\ (t = "Night") <=> (hour < 5 \/ hour >= 21)
           /\ hour \in DOMAIN listed => t = listed[hour]

C7_Witness ==
    Sniffed /\ hour = 12 /\ Result.session.timeOfDay = "Afternoon"

\* C8: for the empty user agent the record holds browser name "Unknown",
\* browser version "unknown", OS "Unknown" and device type "desktop".
C8_DefaultsOnEmptyUserAgent ==
    (Sniffed /\ ua = "") =>
        /\ Result.browser.name = "Unknown"
        /\ Result.browser.version = "unknown"
        /\ Result.device.os = "Unknown"
        /\ Result.device.type = "desktop"

C8_Witness ==
    Sniffed /\ ua = "" /\ Result.browser.userAgent = "" /\ Result.device.type = "desktop"

(***************************************************************************)
(* Properties of the submission flow, checked under Spec and FairSpec.     *)
(***************************************************************************)
Calls == {calls[i] : i \in DOMAIN calls}

\* getGeolocation has settled for this invocation
GeoSettled(c) == c.geo # <<>>

\* the lookup failed: the request threw, the body was not JSON, or the
\* service answered with an error status
LookupFailed(c) ==
    /\ GeoSettled(c)
    /\ \/ c.response = <<>>
       \/ ~c.response[1].isJson
       \/ ~c.response[1].ok

\* the merged record keeps every synchronous field with its value
KeepsSynchronousFields(c) ==
    LET m == c.metadata[1]
        t == c.technicalData
    IN /\ m.browser = t.browser
       /\ m.device = t.device
       /\ m.session = t.session
       /\ m.technical = t.technical
       /\ \A k \in DOMAIN t.location :
             k \in DOMAIN m.location /\ m.location[k] = t.location[k]

\* C3 as stated: on any failure of the lookup getGeolocation reports to the
\* diagnostic log, resolves to an object with no keys, and does not raise.
C3_FailureYieldsEmptyObject ==
    \A c \in Calls :
        LookupFailed(c) =>
            /\ c.geo[1].logged
            /\ c.geo[1].value = EmptyObject
            /\ ~c.geo[1].raised

\* C4 as stated: whatever the geolocation service does, a submission that
\* was started eventually finishes with isLoading back to false.
C4_SubmissionEventuallyFinishes == [](isLoading => <>(~isLoading))

\* C5: when the lookup fails the insert is still issued with the synchronous
\* metadata, and if that insert returns no error then isSubmitted is true
\* and the error message is empty.
C5_EnrichmentFailureDoesNotFailSubmission ==
    \A c \in Calls :
        LookupFailed(c) =>
            /\ c.insertIssued
            /\ c.metadata # <<>>
            /\ KeepsSynchronousFields(c)
            /\ (c.pc = "done" /\ c.insertResult = "ok")
                  => (isSubmitted /\ error = "")

C5_Witness ==
    \E c \in Calls :
        /\ LookupFailed(c) /\ c.geo[1].logged
        /\ c.pc = "done" /\ c.insertResult = "ok"
        /\ isSubmitted /\ error = ""

\* the enrichment keys and the fields of the answer they are read from
EnrichmentField == [country |-> "country_name", city |-> "city",
                    countryCode |-> "country_code"]

\* the service supplied this field: a JSON object arrived that has it
Supplied(c, field) ==
    /\ c.response # <<>>
    /\ c.response[1].isJson
    /\ c.response[1].data.type = "object"
    /\ field \in DOMAIN c.response[1].data.props

Merged(c) == c.metadata # <<>>

\* C6 as stated: the merged record keeps every synchronous field, adds the
\* enrichment fields the service supplied, and a field the service did not
\* supply is not a key of the merged location.
C6_AbsentFieldsAreNotKeys ==
    \A c \in Calls :
        Merged(c) =>
            /\ KeepsSynchronousFields(c)
            /\ \A k \in DOMAIN EnrichmentField :
                  /\ (k \in DOMAIN c.metadata[1].location)
                        <=> Supplied(c, EnrichmentField[k])
                  /\ Supplied(c, EnrichmentField[k])
                        => c.metadata[1].location[k]
                              = c.response[1].data.props[EnrichmentField[k]]

\* C6 amended: the merged record keeps every synchronous field and adds the
\* enrichment fields the service supplied; when a JSON body other than null
\* was parsed, a field the service did not supply is a key of the merged
\* location holding undefined (never null or another placeholder), and when
\* the lookup threw, no enrichment key is added.
C6_AbsentFieldsAreUndefined ==
    \A c \in Calls :
        Merged(c) =>
            /\ KeepsSynchronousFields(c)
            /\ \A k \in DOMAIN EnrichmentField :
                  LET loc == c.metadata[1].location
                      parsed == /\ c.response # <<>>
                                /\ c.response[1].isJson
                                /\ c.response[1].data.type # "null"
                  IN /\ (k \in DOMAIN loc) <=> parsed
                     /\ Supplied(c, EnrichmentField[k])
                           => loc[k] = c.response[1].data.props[EnrichmentField[k]]
                     /\ (parsed /\ ~Supplied(c, EnrichmentField[k]))
                           => loc[k] = Undefined
            /\ DOMAIN c.metadata[1].location \subseteq
                  (DOMAIN c.technicalData.location) \cup (DOMAIN EnrichmentField)

C6_Witness ==
    \E c \in Calls :
        /\ Merged(c)
        /\ Supplied(c, "country_name") /\ ~Supplied(c, "city")
        /\ c.metadata[1].location["country"] = Str("Ghana")
        /\ "city" \in DOMAIN c.metadata[1].location
        /\ c.metadata[1].location["city"] = Undefined
        /\ c.metadata[1].location["timezone"] = Str(Ambient.timeZone)

\* C9: isSubmitted is true only if some insert returned without error; a
\* submission whose insert returned an error or threw leaves isSubmitted
\* false and the error message non-empty; isSubmitted never goes back to
\* false.
C9_SubmittedOnlyAfterSuccessfulInsert ==
    /\ [](isSubmitted => insertedOk)
    /\ [](\A c \in Calls :
             (c.pc = "done" /\ c.insertResult \in {"error", "throws"})
                 => (~isSubmitted /\ error # ""))
    /\ [][isSubmitted => isSubmitted']_vars

C9_Witness ==
    /\ isSubmitted /\ insertedOk /\ nSubmits = 2
    /\ \E c \in Calls : c.pc = "done" /\ c.insertResult = "ok"

\* C10: at most one invocation of handleSubmit is awaiting the enrichment or
\* the insert, and while one is, isLoading is true.
C10_AtMostOneSubmissionInFlight ==
    /\ Cardinality({i \in DOMAIN calls : IsLive(calls[i])}) <= 1
    /\ (\E i \in DOMAIN calls : IsLive(calls[i])) => isLoading

C10_Witness ==
    /\ nSubmits = 2
    /\ \E i \in DOMAIN calls : calls[i].pc = "insert"
    /\ isLoading

====
